---- MODULE Spec2Model ----
(***************************************************************************)
(* Workflow execution engine of backoffice/backend/orchestrator.py:        *)
(* WorkflowOrchestrator.execute_workflow, call_agent and _get_step_input,  *)
(* the WorkflowExecution record they fill in, and the execute endpoint of  *)
(* backoffice/backend/app.py that stores and reports the returned run.     *)
(*                                                                         *)
(* Python values are modelled as follows.  A dict is a function whose      *)
(* DOMAIN is its key set, so d.get(k, default) is Get(d, k, default).      *)
(* None is the value None.  Text is a TLA+ string; the empty string and    *)
(* None are the falsy values of `x or y`.  datetime.now() reads the        *)
(* logical clock, which advances at every awaited call_agent and sleep.    *)
(*                                                                         *)
(* Spec follows one run over workflows that vary retry and on_error;       *)
(* SpecInputs varies the input_source of the steps, SpecBackoff the retry  *)
(* count of a single step, SpecLocal the step that follows a retried one,  *)
(* and SpecStore lets other requests create and store their executions     *)
(* around the run followed.  SpecPeer interleaves a second run on the same *)
(* orchestrator.  SpecLive is the run under the assumption that every      *)
(* await returns.  SpecBuild constructs Workflow objects from one mapping, *)
(* with lists and dicts kept by reference; SpecManager is WorkflowManager  *)
(* over the runtime and examples directories and its cache.                *)
(***************************************************************************)
EXTENDS Integers, Sequences, FiniteSets, TLC

\* ------------------------------------------------------------------ bounds

\* Longest workflow drawn whose steps all keep the default retry (0).
MaxSteps == 3

\* Longest workflow drawn whose steps configure a retry.
MaxRetrySteps == 2

\* Largest retry count drawn for a step.
MaxRetry == 1

\* Largest retry count drawn for the step of a backoff run.
MaxBackoffRetry == 3

\* Most Workflow objects constructed from one definition mapping.
MaxBuilt == 2

\* Most executions the process creates besides the one followed.
MaxOtherRuns == 2

\* Last wall-clock second the runs drawn reach, counted from the construction
\* of the execution followed.
MaxSeconds == 1

\* Longest workflow drawn whose steps vary their input_source.
MaxInputSteps == 2

\* ------------------------------------------------------------ input domains

\* None where the other values are text or dicts.
None == "<None>"

\* None where the other values are datetimes.
NoTime == -1

\* None where the other values are dicts (step_result = None).
NoResult == [none |-> TRUE]

\* Step definitions also carry a negative retry: nothing validates the field.
Retries == {-1} \cup (0 .. MaxRetry)

\* The agent the steps name; the registry may or may not know it.
AgentNames == {"echo"}

\* The url discovery reports for a running agent container.
AgentUrl(name) == "http://agent-" \o name \o ":8000"

\* The registries the orchestrator can hold: every subset of the agents.
Registries == { [a \in known |-> AgentUrl(a)] : known \in SUBSET AgentNames }

\* The on_error values of the steps drawn.
OnErrorPolicies == {"stop", "continue", "skip"}

\* The input_source of the steps drawn: the default, the threaded output.
InputSources == {"previous"}

\* The initial_input of the runs drawn.
InitialInputs == {"hello"}

\* ------------------------------------------------------------ Python helpers

\* dict.get(key, default)
Get(d, key, default) == IF key \in DOMAIN d THEN d[key] ELSE default

\* Truthiness of an Optional[str]
Falsy(x) == x = None \/ x = ""

\* x or y
Or(x, y) == IF Falsy(x) THEN y ELSE x

\* --------------------------------------------------------------- data model

StepName(i) == "s" \o ToString(i)

\* WorkflowStep.__init__: the fields the engine reads.
WorkflowStep(i, agent, input, retry, on_error) ==
    [name |-> StepName(i), agent |-> agent, agent_url |-> None,
     input_source |-> input, retry |-> retry, on_error |-> on_error]

\* The step definitions drawn for position i with a retry among `retries`.
StepConfigs(i, retries) ==
    { WorkflowStep(i, a, src, r, p) :
        a \in AgentNames, src \in InputSources, r \in retries, p \in OnErrorPolicies }

\* Workflow.steps for every workflow of exactly n steps.
WorkflowsOfLen(n, retries) ==
    { w \in [1 .. n -> UNION { StepConfigs(i, retries) : i \in 1 .. n }] :
        \A i \in 1 .. n : w[i].name = StepName(i) }

\* The workflows drawn: up to MaxSteps steps without retries, and up to
\* MaxRetrySteps steps with any retry of Retries.
Workflows ==
    UNION { WorkflowsOfLen(n, {0}) : n \in 0 .. MaxSteps }
        \cup UNION { WorkflowsOfLen(n, Retries) : n \in 0 .. MaxRetrySteps }

\* The input_source values of the steps of the input-resolution runs: the
\* two keywords, references to an earlier, the current or a later step, a
\* negative and an unparsable reference, and a literal.
ReferenceSources ==
    {"original", "previous", "step[0]", "step[1]", "step[-1]", "step[x]",
     "static text"}

\* Workflow.steps for every workflow of exactly n steps that keep the default
\* retry, go on after a failure, and draw their input_source from `sources`.
InputWorkflowsOfLen(n, sources) ==
    { w \in [1 .. n -> UNION { { WorkflowStep(i, a, src, 0, "continue") :
                                    a \in AgentNames, src \in sources } :
                               i \in 1 .. n }] :
        \A i \in 1 .. n : w[i].name = StepName(i) }

\* The workflows of the input-resolution runs: up to MaxInputSteps steps over
\* ReferenceSources, and the one-step workflows of every retry and policy.
InputWorkflows ==
    UNION { InputWorkflowsOfLen(n, ReferenceSources) : n \in 0 .. MaxInputSteps }
        \cup WorkflowsOfLen(1, Retries)

\* The workflows of the backoff runs: the empty one and every one-step
\* workflow with a retry up to MaxBackoffRetry (or a negative one).
BackoffWorkflows ==
    WorkflowsOfLen(0, {0}) \cup WorkflowsOfLen(1, {-1} \cup (0 .. MaxBackoffRetry))

\* The agent names a step may carry: the agents, and a name that no
\* discovery ever reports.
StepAgents == AgentNames \cup {"ghost"}

\* The workflows of the retry-locality runs: a step of any retry and policy
\* followed by a step of any retry and policy that may name the unknown agent
\* and may read "step[0]"; and the one-step workflows.
LocalWorkflows ==
    { <<a, b>> : a \in StepConfigs(1, Retries),
                 b \in { WorkflowStep(2, agent, src, r, p) :
                            agent \in StepAgents, src \in {"previous", "step[0]"},
                            r \in Retries, p \in OnErrorPolicies } }
        \cup WorkflowsOfLen(1, Retries)

VARIABLES
    workflow,            \* Workflow.steps of the run (1-based here, 0-based in the code)
    initial_input,       \* execute_workflow's initial_input
    agent_registry,      \* WorkflowOrchestrator.agent_registry: name -> url
    status,              \* WorkflowExecution.status
    current_step_index,  \* WorkflowExecution.current_step_index
    step_results,        \* WorkflowExecution.step_results
    error,               \* WorkflowExecution.error
    start_time,          \* WorkflowExecution.start_time
    end_time,            \* WorkflowExecution.end_time
    execution_id,        \* WorkflowExecution.execution_id
    current_output,      \* local of execute_workflow
    step_input,          \* local of execute_workflow
    attempts,            \* local of execute_workflow
    max_attempts,        \* local of execute_workflow
    step_result,         \* local of execute_workflow
    pc,                  \* position of the execute endpoint / execute_workflow
    clock,               \* datetime.now()
    slept,               \* seconds asked of asyncio.sleep so far
    agent_calls,         \* call_agent invocations of the current step
    http_requests,       \* POSTs actually sent for the current step
    failed_calls,        \* call_agent invocations of the current step that failed
    sent_inputs,         \* the input texts POSTed for the current step
    called_agents,       \* the agent names call_agent was invoked with for the current step
    called_steps,        \* the (0-based) steps whose agent call_agent was invoked for
    total_calls,         \* call_agent invocations of the run
    executions,          \* app.py's execution store: execution_id -> execution object
    response,            \* what the execute endpoint returned
    other_runs,          \* the other WorkflowExecution objects of the process
    second,              \* the wall-clock second datetime.now() falls in
    peer,                \* a second run of execute_workflow on the same orchestrator
    workflows_dir,       \* WorkflowManager.workflows_dir: name -> content of name.yml
    examples_dir,        \* WorkflowManager.examples_dir: name -> content of name.yml
    _workflow_cache,     \* WorkflowManager._workflow_cache: name -> Workflow
    returned,            \* the last call of a WorkflowManager method and its value
    dropped,             \* the names whose cache entry a save or a delete removed
    config,              \* a definition mapping: key -> address of its list or dict
    lists,               \* the list objects: address -> elements
    dicts,               \* the dict objects: address -> keys
    built,               \* the Workflow objects constructed from config
    touched              \* the Workflow object the last change went through (0: none)

vars == <<workflow, initial_input, agent_registry, status, current_step_index,
          step_results, error, start_time, end_time, execution_id,
          current_output, step_input, attempts, max_attempts, step_result, pc,
          clock, slept, agent_calls, http_requests, failed_calls, sent_inputs,
          called_agents, called_steps, total_calls,
          executions, response, other_runs, second, peer,
          workflows_dir, examples_dir, _workflow_cache, returned, dropped,
          config, lists, dicts, built, touched>>

inputs == <<workflow, initial_input, agent_registry>>
execution == <<status, current_step_index, step_results, error, start_time,
               end_time, execution_id>>
locals == <<current_output, step_input, attempts, max_attempts, step_result>>
observed == <<agent_calls, http_requests, failed_calls, sent_inputs, called_agents,
              called_steps, total_calls>>
endpoint == <<executions, response>>
concurrent == <<other_runs, second>>
manager == <<workflows_dir, examples_dir, _workflow_cache, returned, dropped>>
construction == <<config, lists, dicts, built, touched>>
elsewhere == <<peer, manager, construction>>

\* The step the loop variable `step` is bound to (code index i = current_step_index).
step == workflow[current_step_index + 1]

\* ------------------------------------------------------------- environment

\* JSON bodies an agent answers with on HTTP 200: its input with a mark
\* appended as {"output": ...}, or {} (no output key).
EmptyDict == [k \in {} |-> None]

Responses(input_text) == { [output |-> input_text \o "+"], EmptyDict }

\* What one POST to {url}/process/raw can do: a 2xx with a JSON object, an
\* httpx.HTTPError (refused, timeout, non-2xx), or any other exception
\* (a body that is not JSON).
HttpOutcomes(input_text) ==
    { [kind |-> "ok", body |-> r] : r \in Responses(input_text) }
        \cup { [kind |-> "http_error", body |-> None],
               [kind |-> "unexpected_error", body |-> None] }

\* ---------------------------------------------------------------- call_agent

\* url = agent_url or self.agent_registry.get(agent_name)
ResolveUrl(agent_name, agent_url, registry) ==
    Or(agent_url, Get(registry, agent_name, None))

\* True when call_agent sends a POST (the url resolved).
SendsRequest(agent_name, agent_url, registry) ==
    ~Falsy(ResolveUrl(agent_name, agent_url, registry))

\* call_agent without its last except branch: an exception that is no
\* httpx.HTTPError leaves the caller without a result dict.
call_agent_Uncaught(agent_name, input_text, agent_url, registry, outcome) ==
    IF ~SendsRequest(agent_name, agent_url, registry)
    THEN [success |-> FALSE,
          error |-> "Agent '" \o agent_name \o "' not found in registry",
          agent |-> agent_name]
    ELSE CASE outcome.kind = "ok" ->
                [success |-> TRUE, agent |-> agent_name,
                 output |-> Get(outcome.body, "output", ""),
                 format |-> Get(outcome.body, "format", "text")]
           [] outcome.kind = "http_error" ->
                [success |-> FALSE, agent |-> agent_name,
                 error |-> "HTTP error: refused",
                 error_type |-> "http_error"]
           [] OTHER -> NoResult

\* The dict call_agent returns; `outcome` is what the POST does when one is sent.
call_agent(agent_name, input_text, agent_url, registry, outcome) ==
    IF ~SendsRequest(agent_name, agent_url, registry)
    THEN [success |-> FALSE,
          error |-> "Agent '" \o agent_name \o "' not found in registry",
          agent |-> agent_name]
    ELSE CASE outcome.kind = "ok" ->
                [success |-> TRUE, agent |-> agent_name,
                 output |-> Get(outcome.body, "output", ""),
                 format |-> Get(outcome.body, "format", "text")]
           [] outcome.kind = "http_error" ->
                [success |-> FALSE, agent |-> agent_name,
                 error |-> "HTTP error: refused",
                 error_type |-> "http_error"]
           [] OTHER ->
                [success |-> FALSE, agent |-> agent_name,
                 error |-> "Unexpected error: bad body",
                 error_type |-> "unexpected_error"]

\* ----------------------------------------------------------- _get_step_input

\* str.startswith
StartsWith(text, prefix) ==
    Len(text) >= Len(prefix) /\ SubSeq(text, 1, Len(prefix)) = prefix

\* text[5:-1]
Slice5ToLast(text) ==
    IF Len(text) - 1 >= 6 THEN SubSeq(text, 6, Len(text) - 1) ELSE ""

Digits == {"0", "1", "2", "3", "4", "5", "6", "7", "8", "9"}

DigitValue(c) ==
    CASE c = "0" -> 0 [] c = "1" -> 1 [] c = "2" -> 2 [] c = "3" -> 3
      [] c = "4" -> 4 [] c = "5" -> 5 [] c = "6" -> 6 [] c = "7" -> 7
      [] c = "8" -> 8 [] c = "9" -> 9

IsDigits(text) ==
    Len(text) >= 1 /\ \A k \in 1 .. Len(text) : SubSeq(text, k, k) \in Digits

RECURSIVE DigitsValue(_)
DigitsValue(text) ==
    IF Len(text) = 0 THEN 0
    ELSE 10 * DigitsValue(SubSeq(text, 1, Len(text) - 1))
            + DigitValue(SubSeq(text, Len(text), Len(text)))

\* int(text) for a signed decimal literal; ok = FALSE stands for ValueError.
ParseInt(text) ==
    IF IsDigits(text) THEN [ok |-> TRUE, value |-> DigitsValue(text)]
    ELSE IF Len(text) >= 2 /\ SubSeq(text, 1, 1) \in {"-", "+"}
            /\ IsDigits(SubSeq(text, 2, Len(text)))
         THEN [ok |-> TRUE,
               value |-> IF SubSeq(text, 1, 1) = "-"
                         THEN 0 - DigitsValue(SubSeq(text, 2, Len(text)))
                         ELSE DigitsValue(SubSeq(text, 2, Len(text)))]
         ELSE [ok |-> FALSE, value |-> 0]

\* The resolver reading a "step[n]" reference as counted from 1.
_get_step_input_OneBased(s, initial, previous_output, results) ==
    IF s.input_source = "original" THEN initial
    ELSE IF s.input_source = "previous" THEN Or(previous_output, initial)
    ELSE IF StartsWith(s.input_source, "step[")
         THEN LET index == ParseInt(Slice5ToLast(s.input_source))
              IN  IF index.ok /\ 1 <= index.value /\ index.value <= Len(results)
                  THEN Get(results[index.value], "output", "")
                  ELSE initial
         ELSE s.input_source

\* The resolver treating "original" like "previous".
_get_step_input_OriginalAsPrevious(s, initial, previous_output, results) ==
    IF s.input_source \in {"original", "previous"} THEN Or(previous_output, initial)
    ELSE IF StartsWith(s.input_source, "step[")
         THEN LET index == ParseInt(Slice5ToLast(s.input_source))
              IN  IF index.ok /\ 0 <= index.value /\ index.value < Len(results)
                  THEN Get(results[index.value + 1], "output", "")
                  ELSE initial
         ELSE s.input_source

\* step_results is 1-based here: the code's step_results[n] is results[n + 1].
_get_step_input(s, initial, previous_output, results) ==
    IF s.input_source = "original" THEN initial
    ELSE IF s.input_source = "previous" THEN Or(previous_output, initial)
    ELSE IF StartsWith(s.input_source, "step[")
         THEN LET index == ParseInt(Slice5ToLast(s.input_source))
              IN  IF index.ok /\ 0 <= index.value /\ index.value < Len(results)
                  THEN Get(results[index.value + 1], "output", "")
                  ELSE initial
         ELSE s.input_source

\* ------------------------------------------------------- execute_workflow

\* An off-by-one budget: one attempt too many.
MaxAttempts_OneMore(s) == s.retry + 2

\* max_attempts = step.retry + 1
MaxAttempts(s) == s.retry + 1

\* step_result.get("success")
Succeeded(r) == Get(r, "success", FALSE) = TRUE

\* The metadata with the attempt budget recorded instead of the attempts made.
WithMetadata_Budget(r, s, i, n) ==
    [k \in DOMAIN r \cup {"step_name", "step_index", "attempts"} |->
        CASE k = "step_name" -> s.name
          [] k = "step_index" -> i
          [] k = "attempts" -> s.retry + 1
          [] OTHER -> r[k]]

\* The metadata with the step's position counted from 1.
WithMetadata_CountsFromOne(r, s, i, n) ==
    [k \in DOMAIN r \cup {"step_name", "step_index", "attempts"} |->
        CASE k = "step_name" -> s.name
          [] k = "step_index" -> i + 1
          [] k = "attempts" -> n
          [] OTHER -> r[k]]

\* The metadata added to the result before it is appended (0-based index).
WithMetadata(r, s, i, n) ==
    [k \in DOMAIN r \cup {"step_name", "step_index", "attempts"} |->
        CASE k = "step_name" -> s.name
          [] k = "step_index" -> i
          [] k = "attempts" -> n
          [] OTHER -> r[k]]

\* execution.error of the stop exit
StepFailedError(s, r) ==
    "Step '" \o s.name \o "' failed: " \o Get(r, "error", "None")

\* execution.error of the except branch (str(e) of the TypeError)
WorkflowExecutionError ==
    "Workflow execution error: 'NoneType' object does not support item assignment"

\* The update that adopts the result's output field even when it is missing.
NextOutput_AdoptsMissing(r, output) == Get(r, "output", "")

\* current_output = step_result.get("output", current_output)
NextOutput(r, output) == Get(r, "output", output)

\* A backoff that grows by two seconds per attempt.
BackoffSeconds_Linear(n) == 2 * n

\* 2 ** attempts
BackoffSeconds(n) == 2 ^ n

\* WorkflowExecution.to_dict
to_dict ==
    [execution_id |-> execution_id,
     status |-> status,
     current_step |-> current_step_index + 1,
     total_steps |-> Len(workflow),
     step_results |-> step_results,
     error |-> error,
     duration_seconds |->
        IF start_time # NoTime /\ end_time # NoTime
        THEN end_time - start_time ELSE NoTime,
     start_time |-> start_time,
     end_time |-> end_time]

\* datetime.now().strftime("%Y%m%d_%H%M%S"): one text per second.
FormatTime(t) == "t" \o ToString(t)

\* The execution store holds references: the execution followed is This, the
\* k-th other execution of the process is k.
This == 0

\* executions[id] = run
Stored(store, id, run) ==
    [k \in DOMAIN store \cup {id} |-> IF k = id THEN run ELSE store[k]]

\* A lookup that finds no execution (HTTP 404).
NotFound == -1

\* app.py get_execution_status: the execution the store holds under id.
get_execution_status(id) ==
    IF id \notin DOMAIN executions THEN NotFound ELSE executions[id]

\* No second run has been started.
NoPeer == [none |-> TRUE]

\* -------------------------------------------------------- Workflow.__init__

\* The keys a metadata dict may hold.
MetadataKeys == {"owner", "tag"}

\* The step mappings of a definition: with the default retry, or with one.
RawSteps(i) ==
    { [name |-> StepName(i), agent |-> "echo"],
      [name |-> StepName(i), agent |-> "echo", retry |-> MaxRetry] }

\* The definitions constructed from: a list of steps, and a metadata dict
\* or none.
Sources ==
    LET steps == {<<>>} \cup { <<r>> : r \in RawSteps(1) }
    IN  { [steps |-> st] : st \in steps }
          \cup { [steps |-> st, metadata |-> m] :
                   st \in steps, m \in {{}, {"owner"}} }

\* The address of the list and of the dict a definition mapping holds.
SourceAddress == 0

\* WorkflowStep.__init__ on the step mapping at position i.
WorkflowStepOf(i, raw) ==
    WorkflowStep(i, Get(raw, "agent", None), Get(raw, "input", "previous"),
                 Get(raw, "retry", 0), Get(raw, "on_error", "stop"))

\* Workflow.__init__: the fields of the k-th object constructed; steps is a
\* new list, metadata is config.get("metadata", {}), the mapping's own dict
\* when it has one and a new dict otherwise.
Workflow_init(k) ==
    [name |-> Get(config, "name", "unnamed-workflow"),
     steps |-> k,
     metadata |-> IF "metadata" \in DOMAIN config THEN config.metadata ELSE k]

\* A definition mapping of `sources` from which nothing was constructed yet.
SourceGiven(sources) ==
    /\ \E src \in sources :
         /\ config = [key \in DOMAIN src |-> SourceAddress]
         /\ lists = [a \in {SourceAddress} |-> src.steps]
         /\ dicts = IF "metadata" \in DOMAIN src
                    THEN [a \in {SourceAddress} |-> src.metadata]
                    ELSE [a \in {} |-> {}]
    /\ built = <<>>
    /\ touched = 0

\* --------------------------------------------------------- WorkflowManager

\* The workflow names the manager is asked for; "unnamed" is the file name
\* save_workflow gives a definition without a name.
WorkflowNames == {"a", "unnamed"}

\* The descriptions that tell two definitions of one name apart.
Descriptions == {"v1", "v2"}

\* The definition mappings that carry a name.
NamedDefinitions ==
    { [name |-> n, description |-> d] : n \in WorkflowNames, d \in Descriptions }

\* The definition mappings: with a name, or without one.
Definitions == NamedDefinitions \cup { [description |-> d] : d \in Descriptions }

\* The contents a directory of workflow files may have.
Directories ==
    UNION { [names -> Definitions] : names \in SUBSET WorkflowNames }

\* Workflow.from_file: the Workflow parsed from the content of a file.
from_file(content) ==
    [name |-> Get(content, "name", "unnamed-workflow"),
     description |-> Get(content, "description", ""),
     steps |-> <<>>]

\* load_workflow found no file (None).
NoWorkflow == [found |-> FALSE]

\* No method of the manager has been called.
NoCall == [call |-> "none"]

\* del d[key]
Removed(d, key) == [k \in DOMAIN d \ {key} |-> d[k]]

\* str(workflows_dir / f"{name}.yml")
FilePath(name) == "workflows/" \o name \o ".yml"

\* WorkflowManager.load_workflow: the cache after the call and the value
\* returned.
load_workflow(cache, runtime, name) ==
    IF name \in DOMAIN cache
    THEN [cache |-> cache, value |-> cache[name]]
    ELSE IF name \in DOMAIN runtime
    THEN [cache |-> Stored(cache, name, from_file(runtime[name])),
          value |-> from_file(runtime[name])]
    ELSE IF name \in DOMAIN examples_dir
    THEN [cache |-> Stored(cache, name, from_file(examples_dir[name])),
          value |-> from_file(examples_dir[name])]
    ELSE [cache |-> cache, value |-> NoWorkflow]

\* A save_workflow that leaves the cache entry of the name in place.
save_workflow_KeepsCache(cache, runtime, workflow_config) ==
    LET name == Get(workflow_config, "name", "unnamed")
    IN  [runtime |-> Stored(runtime, name, workflow_config),
         cache |-> cache,
         value |-> FilePath(name)]

\* WorkflowManager.save_workflow: the runtime directory and the cache after
\* the call, and the value returned.
save_workflow(cache, runtime, workflow_config) ==
    LET name == Get(workflow_config, "name", "unnamed")
    IN  [runtime |-> Stored(runtime, name, workflow_config),
         cache |-> Removed(cache, name),
         value |-> FilePath(name)]

\* WorkflowManager.delete_workflow: the runtime directory and the cache after
\* the call, and the value returned.
delete_workflow(cache, runtime, name) ==
    IF name \in DOMAIN runtime
    THEN [runtime |-> Removed(runtime, name), cache |-> Removed(cache, name),
          value |-> TRUE]
    ELSE [runtime |-> runtime, cache |-> cache, value |-> FALSE]

\* WorkflowManager.__init__ over directories with the contents drawn.
ManagerCreated(directories) ==
    /\ workflows_dir \in directories
    /\ examples_dir \in directories
    /\ _workflow_cache = EmptyDict
    /\ returned = NoCall
    /\ dropped = {}

\* ------------------------------------------------------------------- Init

\* The state after WorkflowExecution.__init__ (first statement of
\* execute_workflow), for every workflow of `workflows` and input drawn.
ExecutionCreated(workflows) ==
    /\ workflow \in workflows
    /\ initial_input \in InitialInputs
    /\ agent_registry \in Registries
    /\ clock = 0
    /\ slept = 0
    /\ second = 0
    /\ execution_id = FormatTime(0)
    /\ status = "pending"
    /\ current_step_index = -1
    /\ step_results = <<>>
    /\ error = None
    /\ start_time = NoTime
    /\ end_time = NoTime
    /\ current_output = None
    /\ step_input = None
    /\ attempts = 0
    /\ max_attempts = 0
    /\ step_result = NoResult
    /\ pc = "created"
    /\ agent_calls = 0
    /\ http_requests = 0
    /\ failed_calls = 0
    /\ sent_inputs = {}
    /\ called_agents = {}
    /\ called_steps = {}
    /\ total_calls = 0
    /\ executions = EmptyDict
    /\ other_runs = <<>>
    /\ peer = NoPeer
    /\ response = NoResult

\* The execution created in a process whose workflow directories are empty.
InitWith(workflows) ==
    /\ ExecutionCreated(workflows)
    /\ ManagerCreated({EmptyDict})
    /\ SourceGiven({[steps |-> <<>>]})

Init == InitWith(Workflows)

\* ---------------------------------------------------------------- actions

\* A start that registers the running execution in the store.
Begin_Registers ==
    /\ pc = "created"
    /\ status' = "running"
    /\ start_time' = clock
    /\ current_output' = initial_input
    /\ executions' = Stored(executions, execution_id, This)
    /\ pc' = "for"
    /\ UNCHANGED <<elsewhere, concurrent, inputs, current_step_index, step_results, error, end_time,
                   execution_id, step_input, attempts, max_attempts, step_result,
                   clock, observed, response, slept>>

\* execute_workflow up to the loop: status, start_time, current_output.
Begin ==
    /\ pc = "created"
    /\ status' = "running"
    /\ start_time' = clock
    /\ current_output' = initial_input
    /\ pc' = "for"
    /\ UNCHANGED <<elsewhere, concurrent, inputs, current_step_index, step_results, error, end_time,
                   execution_id, step_input, attempts, max_attempts, step_result,
                   clock, observed, endpoint, slept>>

\* Head of one loop iteration: the index, the resolved input, the attempt
\* counters.  A step whose max_attempts is not positive skips the while loop.
EnterStep ==
    /\ pc = "for"
    /\ current_step_index + 1 < Len(workflow)
    /\ LET i == current_step_index + 1
           s == workflow[i + 1]
       IN  /\ current_step_index' = i
           /\ step_input' = _get_step_input(s, initial_input, current_output, step_results)
           /\ attempts' = 0
           /\ max_attempts' = MaxAttempts(s)
           /\ step_result' = NoResult
           /\ pc' = IF 0 < MaxAttempts(s) THEN "while" ELSE "after_while"
    /\ agent_calls' = 0
    /\ http_requests' = 0
    /\ failed_calls' = 0
    /\ sent_inputs' = {}
    /\ called_agents' = {}
    /\ UNCHANGED <<elsewhere, concurrent, inputs, status, step_results, error, start_time, end_time,
                   execution_id, current_output, clock, called_steps, total_calls,
                   endpoint, slept>>

\* A while loop that never gives a failing step up.
AfterAttempt_NeverGivesUp(r, n, max) ==
    IF Succeeded(r) THEN "after_while" ELSE "sleep"

\* Where the while loop goes after an attempt that returned r.
AfterAttempt(r, n, max) ==
    IF Succeeded(r) THEN "after_while"
    ELSE IF n < max THEN "sleep" ELSE "after_while"

\* One iteration of the while loop: count the attempt and await call_agent.
Attempt ==
    /\ pc = "while"
    /\ attempts < max_attempts
    /\ \E outcome \in HttpOutcomes(step_input) :
         LET sends == SendsRequest(step.agent, step.agent_url, agent_registry)
             r == call_agent(step.agent, step_input, step.agent_url,
                             agent_registry, outcome)
         IN  /\ attempts' = attempts + 1
             /\ step_result' = r
             /\ agent_calls' = agent_calls + 1
             /\ http_requests' = IF sends THEN http_requests + 1 ELSE http_requests
             /\ failed_calls' = IF Succeeded(r) THEN failed_calls ELSE failed_calls + 1
             /\ sent_inputs' = IF sends THEN sent_inputs \cup {step_input} ELSE sent_inputs
             /\ called_agents' = called_agents \cup {step.agent}
             /\ called_steps' = called_steps \cup {current_step_index}
             /\ total_calls' = total_calls + 1
             /\ clock' = clock + 1
             /\ pc' = AfterAttempt(r, attempts + 1, max_attempts)
    /\ UNCHANGED <<elsewhere, concurrent, inputs, execution, current_output,
                   step_input, max_attempts,
                   endpoint, slept>>

\* A backoff after which the retry is sent the error of the failed attempt.
Backoff_FeedsError ==
    /\ pc = "sleep"
    /\ clock' = clock + 1
    /\ slept' = slept + BackoffSeconds(attempts)
    /\ step_input' = step_result.error
    /\ pc' = "while"
    /\ UNCHANGED <<elsewhere, concurrent, inputs, execution, current_output,
                   attempts, max_attempts, step_result, observed, endpoint>>

\* await asyncio.sleep(2 ** attempts) between two attempts.
Backoff ==
    /\ pc = "sleep"
    /\ clock' = clock + 1
    /\ slept' = slept + BackoffSeconds(attempts)
    /\ pc' = "while"
    /\ UNCHANGED <<elsewhere, concurrent, inputs, execution, locals, observed, endpoint>>

\* The record appended for the current step.
Record == WithMetadata(step_result, step, current_step_index, attempts)

\* The missing result is passed over and the loop goes on with the next step.
CatchException_PassOver ==
    /\ pc = "after_while"
    /\ step_result = NoResult
    /\ pc' = "for"
    /\ UNCHANGED <<elsewhere, concurrent, inputs, execution, locals, clock,
                   observed, endpoint, slept>>

\* The except branch without its end_time assignment.
CatchException_NoEndTime ==
    /\ pc = "after_while"
    /\ step_result = NoResult
    /\ status' = "failed"
    /\ error' = WorkflowExecutionError
    /\ pc' = "returned"
    /\ UNCHANGED <<elsewhere, concurrent, inputs, current_step_index,
                   step_results, start_time, end_time,
                   execution_id, locals, clock, observed, endpoint, slept>>

\* An except branch that returns the failed run without its records.
CatchException_DropsResults ==
    /\ pc = "after_while"
    /\ step_result = NoResult
    /\ status' = "failed"
    /\ error' = WorkflowExecutionError
    /\ end_time' = clock
    /\ step_results' = <<>>
    /\ pc' = "returned"
    /\ UNCHANGED <<elsewhere, concurrent, inputs, current_step_index, start_time,
                   execution_id, locals, clock, observed, endpoint, slept>>

\* step_result is None (the while loop never ran): the item assignment
\* raises TypeError, which the except branch turns into a failed run.
CatchException ==
    /\ pc = "after_while"
    /\ step_result = NoResult
    /\ status' = "failed"
    /\ error' = WorkflowExecutionError
    /\ end_time' = clock
    /\ pc' = "returned"
    /\ UNCHANGED <<elsewhere, concurrent, inputs, current_step_index, step_results, start_time,
                   execution_id, locals, clock, observed, endpoint, slept>>

\* StopOnError without the return: the run is marked failed and the loop goes on.
StopOnError_NoReturn ==
    /\ pc = "after_while"
    /\ step_result # NoResult
    /\ ~Succeeded(Record)
    /\ step.on_error = "stop"
    /\ step_results' = Append(step_results, Record)
    /\ status' = "failed"
    /\ error' = StepFailedError(step, Record)
    /\ end_time' = clock
    /\ pc' = "for"
    /\ UNCHANGED <<elsewhere, concurrent, inputs, current_step_index,
                   start_time, execution_id, locals,
                   clock, observed, endpoint, slept>>

\* Append the record; the step failed and its policy is "stop".
StopOnError ==
    /\ pc = "after_while"
    /\ step_result # NoResult
    /\ ~Succeeded(Record)
    /\ step.on_error = "stop"
    /\ step_results' = Append(step_results, Record)
    /\ status' = "failed"
    /\ error' = StepFailedError(step, Record)
    /\ end_time' = clock
    /\ pc' = "returned"
    /\ UNCHANGED <<elsewhere, concurrent, inputs, current_step_index,
                   start_time, execution_id, locals,
                   clock, observed, endpoint, slept>>

\* SkipOnError that also reports the skipped step's failure in execution.error.
SkipOnError_SetsError ==
    /\ pc = "after_while"
    /\ step_result # NoResult
    /\ ~Succeeded(Record)
    /\ step.on_error = "skip"
    /\ step_results' = Append(step_results, Record)
    /\ error' = StepFailedError(step, Record)
    /\ pc' = "for"
    /\ UNCHANGED <<elsewhere, concurrent, inputs, status, current_step_index, start_time, end_time,
                   execution_id, locals, clock, observed, endpoint, slept>>

\* SkipOnError that moves on without appending the skipped step's record.
SkipOnError_NoRecord ==
    /\ pc = "after_while"
    /\ step_result # NoResult
    /\ ~Succeeded(Record)
    /\ step.on_error = "skip"
    /\ pc' = "for"
    /\ UNCHANGED <<elsewhere, concurrent, inputs, execution, locals, clock,
                   observed, endpoint, slept>>

\* Append the record; the step failed and its policy is "skip".
SkipOnError ==
    /\ pc = "after_while"
    /\ step_result # NoResult
    /\ ~Succeeded(Record)
    /\ step.on_error = "skip"
    /\ step_results' = Append(step_results, Record)
    /\ pc' = "for"
    /\ UNCHANGED <<elsewhere, concurrent, inputs, status, current_step_index,
                   error, start_time, end_time,
                   execution_id, locals, clock, observed, endpoint, slept>>

\* Append the record; the step succeeded, or failed under any other policy.
Proceed ==
    /\ pc = "after_while"
    /\ step_result # NoResult
    /\ Succeeded(Record) \/ step.on_error \notin {"stop", "skip"}
    /\ step_results' = Append(step_results, Record)
    /\ current_output' = NextOutput(Record, current_output)
    /\ pc' = "for"
    /\ UNCHANGED <<elsewhere, concurrent, inputs, status, current_step_index,
                   error, start_time, end_time,
                   execution_id, step_input, attempts, max_attempts, step_result,
                   clock, observed, endpoint, slept>>

\* Complete that reports a run with any unsuccessful record as failed.
Complete_FailedOnAnyFailure ==
    /\ pc = "for"
    /\ ~(current_step_index + 1 < Len(workflow))
    /\ status' = IF \E k \in 1 .. Len(step_results) : ~Succeeded(step_results[k])
                 THEN "failed" ELSE "completed"
    /\ end_time' = clock
    /\ pc' = "returned"
    /\ UNCHANGED <<elsewhere, concurrent, inputs, current_step_index,
                   step_results, error, start_time,
                   execution_id, locals, clock, observed, endpoint, slept>>

\* A completion that reports a run without steps as failed.
Complete_FailsWhenEmpty ==
    /\ pc = "for"
    /\ ~(current_step_index + 1 < Len(workflow))
    /\ status' = IF Len(workflow) = 0 THEN "failed" ELSE "completed"
    /\ end_time' = clock
    /\ pc' = "returned"
    /\ UNCHANGED <<elsewhere, concurrent, inputs, current_step_index,
                   step_results, error, start_time,
                   execution_id, locals, clock, observed, endpoint, slept>>

\* The loop is exhausted: the run completed.
Complete ==
    /\ pc = "for"
    /\ ~(current_step_index + 1 < Len(workflow))
    /\ status' = "completed"
    /\ end_time' = clock
    /\ pc' = "returned"
    /\ UNCHANGED <<elsewhere, concurrent, inputs, current_step_index,
                   step_results, error, start_time,
                   execution_id, locals, clock, observed, endpoint, slept>>

\* StoreExecution that stamps the stored run with the endpoint's own status.
StoreExecution_MarksExecuted ==
    /\ pc = "returned"
    /\ executions' = Stored(executions, execution_id, This)
    /\ status' = "executed"
    /\ response' = [status |-> "executed", execution_id |-> execution_id,
                    result |-> to_dict]
    /\ pc' = "responded"
    /\ UNCHANGED <<elsewhere, concurrent, inputs, current_step_index,
                   step_results, error, start_time,
                   end_time, execution_id, locals, clock, observed, slept>>

\* The execute endpoint after execute_workflow returned: store and report.
StoreExecution ==
    /\ pc = "returned"
    /\ executions' = Stored(executions, execution_id, This)
    /\ response' = [status |-> "executed", execution_id |-> execution_id,
                    result |-> to_dict]
    /\ pc' = "responded"
    /\ UNCHANGED <<elsewhere, concurrent, inputs, execution, locals, clock, observed, slept>>

\* app.py list_agents: sync the discovered agents into the registry.
list_agents ==
    /\ \E discovered \in SUBSET AgentNames :
         /\ discovered # {}
         /\ agent_registry' =
              [a \in DOMAIN agent_registry \cup discovered |->
                 IF a \in discovered THEN AgentUrl(a) ELSE agent_registry[a]]
    /\ agent_registry' # agent_registry
    /\ UNCHANGED <<elsewhere, concurrent, workflow, initial_input, execution, locals, pc,
                   clock, observed, endpoint, slept>>

\* app.py delete_agent_completely: remove the agent from the registry.
delete_agent_completely ==
    /\ \E name \in DOMAIN agent_registry :
         agent_registry' = [a \in DOMAIN agent_registry \ {name} |-> agent_registry[a]]
    /\ UNCHANGED <<elsewhere, concurrent, workflow, initial_input, execution, locals, pc,
                   clock, observed, endpoint, slept>>

Next ==
    \/ Begin
    \/ EnterStep
    \/ Attempt
    \/ Backoff
    \/ CatchException
    \/ StopOnError
    \/ SkipOnError
    \/ Proceed
    \/ Complete
    \/ StoreExecution
    \/ list_agents
    \/ delete_agent_completely

Spec == Init /\ [][Next]_vars

\* One step of the coroutine of execute_workflow: the event loop resumes it
\* whenever the agent call or the sleep it awaits has returned.
RunStep ==
    \/ Begin
    \/ EnterStep
    \/ Attempt
    \/ Backoff
    \/ CatchException
    \/ StopOnError
    \/ SkipOnError
    \/ Proceed
    \/ Complete

\* The workflows of the runs followed to their end: up to MaxRetrySteps
\* steps, each with its own retry from 0 to MaxRetry and all with the same
\* on_error, and the one-step workflows of every retry.
LiveWorkflows ==
    UNION { { w \in WorkflowsOfLen(n, 0 .. MaxRetry) :
                \A i, j \in 1 .. n : w[i].on_error = w[j].on_error } :
            n \in 0 .. MaxRetrySteps }
        \cup WorkflowsOfLen(1, Retries)

InitLive == InitWith(LiveWorkflows)

\* The run under the assumption that every await of the coroutine returns.
SpecLive == InitLive /\ [][Next]_vars /\ WF_vars(RunStep)

\* app.py execute endpoint, another request: execute_workflow constructs its
\* WorkflowExecution, whose id is the text of the current second.
OtherExecutionCreated ==
    /\ Len(other_runs) < MaxOtherRuns
    /\ other_runs' = Append(other_runs, [execution_id |-> FormatTime(second),
                                         status |-> "running"])
    /\ UNCHANGED <<elsewhere, inputs, execution, locals, pc, clock, observed, endpoint,
                   slept, second>>

\* app.py execute endpoint, another request: its execute_workflow returned
\* and the endpoint stores the execution under its id.
OtherExecutionStored ==
    /\ \E k \in 1 .. Len(other_runs), final \in {"completed", "failed"} :
         /\ other_runs[k].status = "running"
         /\ other_runs' = [other_runs EXCEPT ![k].status = final]
         /\ executions' = Stored(executions, other_runs[k].execution_id, k)
    /\ UNCHANGED <<elsewhere, inputs, execution, locals, pc, clock, observed, response,
                   slept, second>>

\* The wall clock passes into the next second.
Tick ==
    /\ second < MaxSeconds
    /\ second' = second + 1
    /\ UNCHANGED <<elsewhere, inputs, execution, locals, pc, clock, observed, endpoint,
                   slept, other_runs>>

\* The run followed among the other requests the process serves.
NextStore ==
    \/ Begin
    \/ EnterStep
    \/ Attempt
    \/ Backoff
    \/ CatchException
    \/ StopOnError
    \/ SkipOnError
    \/ Proceed
    \/ Complete
    \/ StoreExecution
    \/ list_agents
    \/ delete_agent_completely
    \/ OtherExecutionCreated
    \/ OtherExecutionStored
    \/ Tick

\* The workflows of the runs followed among other requests.
StoreWorkflows == WorkflowsOfLen(0, {0}) \cup WorkflowsOfLen(1, Retries)

InitStore == InitWith(StoreWorkflows)

SpecStore == InitStore /\ [][NextStore]_vars

\* ------------------------------------------------------- a second run

\* The initial_input of the second run.
PeerInput == "other"

\* The workflows of the second run: one step of any retry up to MaxRetry and
\* any policy.
PeerWorkflows == WorkflowsOfLen(1, 0 .. MaxRetry)

\* The second run after WorkflowExecution.__init__ and the statements of
\* execute_workflow before the loop (its execution object and its locals).
PeerRun(w) ==
    [workflow |-> w, initial_input |-> PeerInput, status |-> "running",
     current_step_index |-> -1, step_results |-> <<>>, error |-> None,
     current_output |-> PeerInput, step_input |-> None, attempts |-> 0,
     max_attempts |-> 0, step_result |-> NoResult, pc |-> "for"]

\* The loop variable `step` of the run r.
StepOfRun(r) == r.workflow[r.current_step_index + 1]

\* The record the run r appends for its current step.
RecordOfRun(r) ==
    WithMetadata(r.step_result, StepOfRun(r), r.current_step_index, r.attempts)

\* The run r after its next stretch of execute_workflow, up to the next await
\* or the return: the loop head, one attempt, one sleep, or the statements
\* after the while loop.  `outcome` is what the POST does when one is sent.
Advance(r, registry, outcome) ==
    CASE r.pc = "for" /\ r.current_step_index + 1 < Len(r.workflow) ->
            LET i == r.current_step_index + 1
                s == r.workflow[i + 1]
            IN  [r EXCEPT !.current_step_index = i,
                          !.step_input = _get_step_input(s, r.initial_input,
                                                         r.current_output, r.step_results),
                          !.attempts = 0,
                          !.max_attempts = MaxAttempts(s),
                          !.step_result = NoResult,
                          !.pc = IF 0 < MaxAttempts(s) THEN "while" ELSE "after_while"]
      [] r.pc = "for" /\ ~(r.current_step_index + 1 < Len(r.workflow)) ->
            [r EXCEPT !.status = "completed", !.pc = "returned"]
      [] r.pc = "while" ->
            LET result == call_agent(StepOfRun(r).agent, r.step_input,
                                     StepOfRun(r).agent_url, registry, outcome)
            IN  [r EXCEPT !.attempts = r.attempts + 1,
                          !.step_result = result,
                          !.pc = AfterAttempt(result, r.attempts + 1, r.max_attempts)]
      [] r.pc = "sleep" -> [r EXCEPT !.pc = "while"]
      [] r.pc = "after_while" /\ r.step_result = NoResult ->
            [r EXCEPT !.status = "failed", !.error = WorkflowExecutionError,
                      !.pc = "returned"]
      [] r.pc = "after_while" /\ r.step_result # NoResult ->
            LET record == RecordOfRun(r)
                appended == Append(r.step_results, record)
            IN  IF ~Succeeded(record) /\ StepOfRun(r).on_error = "stop"
                THEN [r EXCEPT !.step_results = appended, !.status = "failed",
                               !.error = StepFailedError(StepOfRun(r), record),
                               !.pc = "returned"]
                ELSE IF ~Succeeded(record) /\ StepOfRun(r).on_error = "skip"
                THEN [r EXCEPT !.step_results = appended, !.pc = "for"]
                ELSE [r EXCEPT !.step_results = appended,
                               !.current_output = NextOutput(record, r.current_output),
                               !.pc = "for"]
      [] OTHER -> r

\* Another request starts a run of execute_workflow on the same orchestrator.
PeerCreated ==
    /\ peer = NoPeer
    /\ \E w \in PeerWorkflows : peer' = PeerRun(w)
    /\ UNCHANGED <<inputs, execution, locals, pc, clock, observed, endpoint,
                   slept, concurrent, manager, construction>>

\* The second run with the output of its steps kept on the orchestrator
\* instead of in a local of execute_workflow.
PeerStep_SharedOutput ==
    /\ peer # NoPeer
    /\ \E outcome \in HttpOutcomes(peer.step_input) :
         /\ peer' = Advance(peer, agent_registry, outcome)
         /\ peer' # peer
    /\ current_output' = peer'.current_output
    /\ UNCHANGED <<inputs, execution, step_input, attempts, max_attempts,
                   step_result, pc, clock, observed, endpoint, slept, concurrent,
                   manager, construction>>

\* The second run goes on to its next await or to its return.
PeerStep ==
    /\ peer # NoPeer
    /\ \E outcome \in HttpOutcomes(peer.step_input) :
         /\ peer' = Advance(peer, agent_registry, outcome)
         /\ peer' # peer
    /\ UNCHANGED <<inputs, execution, locals, pc, clock, observed, endpoint,
                   slept, concurrent, manager, construction>>

\* The run followed and a second run interleaved on one orchestrator.
NextPeer ==
    \/ Begin
    \/ EnterStep
    \/ Attempt
    \/ Backoff
    \/ CatchException
    \/ StopOnError
    \/ SkipOnError
    \/ Proceed
    \/ Complete
    \/ StoreExecution
    \/ list_agents
    \/ delete_agent_completely
    \/ PeerCreated
    \/ PeerStep

\* The workflows of the run followed beside a second run.
IsolationWorkflows == WorkflowsOfLen(1, Retries)

InitPeer == InitWith(IsolationWorkflows)

SpecPeer == InitPeer /\ [][NextPeer]_vars

\* The runs of the workflows that follow a retried step by another step.
InitLocal == InitWith(LocalWorkflows)

SpecLocal == InitLocal /\ [][Next]_vars

\* The runs of the workflows that vary their retry count.
InitBackoff == InitWith(BackoffWorkflows)

SpecBackoff == InitBackoff /\ [][Next]_vars

\* The runs of the workflows that vary their input_source.
InitInputs == InitWith(InputWorkflows)

SpecInputs == InitInputs /\ [][Next]_vars

\* ------------------------------------------- the workflow definitions

\* The tuple of everything the workflow endpoints leave alone.
engine == <<inputs, execution, locals, pc, clock, observed, endpoint, slept,
            concurrent, peer, construction>>

\* The names among `names` that `before` caches and `after` does not.
Dropped(before, after) == DOMAIN before \ DOMAIN after

\* app.py get_workflow / execute_workflow: load a workflow by name.
LoadWorkflow ==
    /\ \E name \in WorkflowNames :
         LET l == load_workflow(_workflow_cache, workflows_dir, name)
         IN  /\ _workflow_cache' = l.cache
             /\ returned' = [call |-> "load_workflow", name |-> name, value |-> l.value]
    /\ UNCHANGED <<engine, workflows_dir, examples_dir, dropped>>

\* app.py create_workflow and the other callers of save_workflow.
SaveWorkflow ==
    /\ \E workflow_config \in Definitions :
         LET s == save_workflow(_workflow_cache, workflows_dir, workflow_config)
         IN  /\ workflows_dir' = s.runtime
             /\ _workflow_cache' = s.cache
             /\ dropped' = dropped \cup Dropped(_workflow_cache, s.cache)
             /\ returned' = [call |-> "save_workflow",
                             name |-> Get(workflow_config, "name", "unnamed"),
                             value |-> s.value]
    /\ UNCHANGED <<engine, examples_dir>>

\* app.py delete_workflow: delete a workflow by name.
DeleteWorkflow ==
    /\ \E name \in WorkflowNames :
         LET d == delete_workflow(_workflow_cache, workflows_dir, name)
         IN  /\ workflows_dir' = d.runtime
             /\ _workflow_cache' = d.cache
             /\ dropped' = dropped \cup Dropped(_workflow_cache, d.cache)
             /\ returned' = [call |-> "delete_workflow", name |-> name, value |-> d.value]
    /\ UNCHANGED <<engine, examples_dir>>

\* app.py update_workflow: load the workflow; if it exists, delete the old
\* file when the name changes, and save the new definition.
UpdateWorkflow ==
    /\ \E workflow_name \in WorkflowNames, request \in NamedDefinitions :
         LET l == load_workflow(_workflow_cache, workflows_dir, workflow_name)
             d == IF request.name # workflow_name
                  THEN delete_workflow(l.cache, workflows_dir, workflow_name)
                  ELSE [runtime |-> workflows_dir, cache |-> l.cache, value |-> FALSE]
             s == save_workflow(d.cache, d.runtime, request)
         IN  IF l.value = NoWorkflow
             THEN /\ _workflow_cache' = l.cache
                  /\ returned' = [call |-> "load_workflow", name |-> workflow_name,
                                  value |-> l.value]
                  /\ UNCHANGED <<workflows_dir, dropped>>
             ELSE /\ workflows_dir' = s.runtime
                  /\ _workflow_cache' = s.cache
                  /\ dropped' = dropped \cup Dropped(l.cache, s.cache)
                  /\ returned' = [call |-> "save_workflow", name |-> request.name,
                                  value |-> s.value]
    /\ UNCHANGED <<engine, examples_dir>>

\* The requests on the workflow definitions.
NextManager ==
    \/ LoadWorkflow
    \/ SaveWorkflow
    \/ DeleteWorkflow
    \/ UpdateWorkflow

\* The manager over every content of its two directories.
InitManager ==
    /\ ExecutionCreated(WorkflowsOfLen(0, {0}))
    /\ ManagerCreated(Directories)
    /\ SourceGiven({[steps |-> <<>>]})

SpecManager == InitManager /\ [][NextManager]_vars

\* ------------------------------------------- constructing Workflow objects

\* The tuple of everything a construction leaves alone.
rest == <<inputs, execution, locals, pc, clock, observed, endpoint, slept,
          concurrent, peer, manager>>

\* Workflow.from_dict(config): one more Workflow object from the mapping.
from_dict ==
    /\ Len(built) < MaxBuilt
    /\ LET k == Len(built) + 1
           raw == lists[config.steps]
           w == Workflow_init(k)
       IN  /\ built' = Append(built, w)
           /\ lists' = Stored(lists, w.steps,
                              [i \in 1 .. Len(raw) |-> WorkflowStepOf(i, raw[i])])
           /\ dicts' = IF w.metadata \in DOMAIN dicts THEN dicts
                       ELSE Stored(dicts, w.metadata, {})
    /\ UNCHANGED <<rest, config, touched>>

\* workflow.metadata[key] = ... on the k-th object.
SetMetadata ==
    /\ \E k \in 1 .. Len(built), key \in MetadataKeys :
         /\ key \notin dicts[built[k].metadata]
         /\ dicts' = [dicts EXCEPT ![built[k].metadata] = @ \cup {key}]
         /\ touched' = k
    /\ UNCHANGED <<rest, config, lists, built>>

\* workflow.steps.pop() on the k-th object.
PopStep ==
    /\ \E k \in 1 .. Len(built) :
         /\ lists[built[k].steps] # <<>>
         /\ lists' = [lists EXCEPT ![built[k].steps] = SubSeq(@, 1, Len(@) - 1)]
         /\ touched' = k
    /\ UNCHANGED <<rest, config, dicts, built>>

\* workflow.steps[0].retry = ... on the k-th object.
SetRetry ==
    /\ \E k \in 1 .. Len(built), r \in Retries :
         /\ lists[built[k].steps] # <<>>
         /\ lists[built[k].steps][1].retry # r
         /\ lists' = [lists EXCEPT ![built[k].steps][1].retry = r]
         /\ touched' = k
    /\ UNCHANGED <<rest, config, dicts, built>>

NextBuild ==
    \/ from_dict
    \/ SetMetadata
    \/ PopStep
    \/ SetRetry

\* Every definition mapping drawn, before anything is constructed from it.
InitBuild ==
    /\ ExecutionCreated(WorkflowsOfLen(0, {0}))
    /\ ManagerCreated({EmptyDict})
    /\ SourceGiven(Sources)

SpecBuild == InitBuild /\ [][NextBuild]_vars

\* ------------------------------------------------------------- vocabulary

Terminal == {"completed", "failed"}

\* execute_workflow has returned its WorkflowExecution.
Returned == pc \in {"returned", "responded"}

\* The workflow step a result record belongs to.
StepOf(r) == workflow[r.step_index + 1]

\* The result of the current step has been appended.
CurrentStepRecorded ==
    /\ current_step_index >= 0
    /\ Len(step_results) = current_step_index + 1
    /\ pc \in {"for", "returned", "responded"}

LastRecord == step_results[Len(step_results)]

\* ----------------------------------------------------------------- claims

\* C1 (stop-on-error): once a step whose on_error is "stop" has a record with
\* success = false, the run has returned with status "failed" and error
\* "Step '<name>' failed: <reason>", that record is the last entry of
\* step_results, and no agent of a later step has been called.
C1_StopOnError ==
    \A k \in 1 .. Len(step_results) :
        LET r == step_results[k]
        IN  (~Succeeded(r) /\ workflow[k].on_error = "stop") =>
                /\ Returned
                /\ status = "failed"
                /\ error = "Step '" \o workflow[k].name \o "' failed: " \o r.error
                /\ k = Len(step_results)
                /\ r.attempts = workflow[k].retry + 1
                /\ \A i \in called_steps : i <= k - 1

\* A retried "stop" step failed on its last attempt with a step left after it.
C1_Witness ==
    /\ Returned
    /\ Len(step_results) >= 1
    /\ Len(step_results) < Len(workflow)
    /\ ~Succeeded(LastRecord)
    /\ StepOf(LastRecord).on_error = "stop"
    /\ LastRecord.attempts = 2

\* The index of the last successful record of `results`, 0 when there is none.
LastSuccess(results) ==
    LET ok == { k \in 1 .. Len(results) : Succeeded(results[k]) }
    IN  IF ok = {} THEN 0 ELSE CHOOSE k \in ok : \A j \in ok : j <= k

\* The output of the last step of `results` that succeeded, initial_input if none.
LastSuccessOutput(results) ==
    IF LastSuccess(results) = 0 THEN initial_input
    ELSE results[LastSuccess(results)].output

\* C2 (skip-on-error preserves previous output): a step with input_source
\* "previous" that follows a step which failed under "skip" is sent the output
\* of the last step that succeeded before it, or initial_input if none.
C2_SkipPreservesPrevious ==
    ( /\ current_step_index >= 1
      /\ Len(step_results) >= current_step_index
      /\ step.input_source = "previous"
      /\ ~Succeeded(step_results[current_step_index])
      /\ workflow[current_step_index].on_error = "skip" )
    => step_input = LastSuccessOutput(SubSeq(step_results, 1, current_step_index))

\* C3 (retry budget): for a step with retry r >= 0 the agent is called at
\* most r + 1 times and never again after a successful call; a record with
\* success = true has attempts = (failed calls) + 1 <= r + 1, and a record
\* with success = false has attempts = r + 1, all of them failed.
C3_RetryBudget ==
    /\ (current_step_index >= 0 /\ step.retry >= 0) =>
          /\ agent_calls <= step.retry + 1
          /\ attempts = agent_calls
          /\ (step_result # NoResult /\ Succeeded(step_result)) =>
                (pc \notin {"while", "sleep"} /\ agent_calls = failed_calls + 1)
          /\ CurrentStepRecorded =>
                IF Succeeded(LastRecord)
                THEN /\ LastRecord.attempts = failed_calls + 1
                     /\ failed_calls <= step.retry
                ELSE /\ LastRecord.attempts = step.retry + 1
                     /\ failed_calls = step.retry + 1
    /\ \A k \in 1 .. Len(step_results) :
          workflow[k].retry >= 0 =>
              /\ step_results[k].attempts >= 1
              /\ step_results[k].attempts <= workflow[k].retry + 1
              /\ ~Succeeded(step_results[k]) =>
                    step_results[k].attempts = workflow[k].retry + 1

\* A step failed once and then succeeded: attempts = 2, success = true.
C3_Witness ==
    /\ CurrentStepRecorded
    /\ Succeeded(LastRecord)
    /\ failed_calls = 1
    /\ LastRecord.attempts = 2

\* A failure record call_agent returns without sending a request.
IsRegistryMiss(r) == ~Succeeded(r) /\ "error_type" \notin DOMAIN r

\* C4 as claimed: the attempts field of a record equals the number of HTTP
\* requests sent for its step, registry misses included.
C4_AttemptsAreHttpRequests ==
    CurrentStepRecorded => LastRecord.attempts = http_requests

\* C4 as amended: the attempts field of a record equals the number of
\* call_agent invocations made for its step; the HTTP requests sent never
\* exceed it, and a record of a registry miss has attempts > requests sent
\* because the invocation that missed sent none.
C4_AttemptsAreCalls ==
    CurrentStepRecorded =>
        /\ LastRecord.attempts = agent_calls
        /\ http_requests <= LastRecord.attempts
        /\ IsRegistryMiss(LastRecord) => http_requests < LastRecord.attempts
        /\ ~IsRegistryMiss(LastRecord) => http_requests >= 1

\* A step whose agent never resolved: two attempts recorded, no request sent.
C4_Witness ==
    /\ CurrentStepRecorded
    /\ IsRegistryMiss(LastRecord)
    /\ LastRecord.attempts = 2
    /\ http_requests = 0

\* Some step the loop reached has on_error "stop" and no successful record.
StopStepDidNotSucceed ==
    \E k \in 1 .. current_step_index + 1 :
        /\ workflow[k].on_error = "stop"
        /\ ~(k <= Len(step_results) /\ Succeeded(step_results[k]))

\* Some record belongs to a "stop" step and has success = false.
StopStepFailed ==
    \E k \in 1 .. Len(step_results) :
        ~Succeeded(step_results[k]) /\ workflow[k].on_error = "stop"

\* The loop reached a step for which no attempt is made (max_attempts <= 0):
\* the exception raised on its missing result was caught by the except branch.
ExceptionCaught ==
    /\ current_step_index >= 0
    /\ step.retry + 1 <= 0
    /\ pc \in {"returned", "responded"}

C6_CompletedMeansAllRecorded ==
    status = "completed" =>
        /\ Len(step_results) = Len(workflow)
        /\ \A k \in 1 .. Len(step_results) :
              /\ step_results[k].step_index = k - 1
              /\ step_results[k].step_name = workflow[k].name
              /\ ~Succeeded(step_results[k]) => workflow[k].on_error # "stop"

\* A three-step run completed with records of a "skip" and a "continue" failure.
C6_Witness ==
    /\ status = "completed"
    /\ Len(workflow) = 3
    /\ \E j, k \in 1 .. Len(step_results) :
          /\ ~Succeeded(step_results[j]) /\ workflow[j].on_error = "skip"
          /\ ~Succeeded(step_results[k]) /\ workflow[k].on_error = "continue"

\* C7: execute_workflow never raises for a failed agent call: the position
\* "raised" is never reached, the execution returned has a terminal status,
\* the endpoint answers "executed", and once the agent of a step was called
\* and the loop moved on, that step has a record, which says success = false
\* and carries the error when every call failed.
C7_NeverRaises ==
    /\ pc # "raised"
    /\ Returned => status \in Terminal
    /\ pc = "responded" =>
          (response.status = "executed" /\ response.result.status \in Terminal)
    /\ (pc \in {"for", "returned", "responded"} /\ agent_calls > 0) =>
          /\ Len(step_results) = current_step_index + 1
          /\ LastRecord.step_index = current_step_index
          /\ failed_calls = agent_calls =>
                (~Succeeded(LastRecord) /\ "error" \in DOMAIN LastRecord)

\* A returned run whose records hold a registry miss, a transport failure and
\* a bad response.
C7_Witness ==
    /\ Returned
    /\ \E k \in 1 .. Len(step_results) : IsRegistryMiss(step_results[k])
    /\ \E k \in 1 .. Len(step_results) :
          Get(step_results[k], "error_type", None) = "http_error"
    /\ \E k \in 1 .. Len(step_results) :
          Get(step_results[k], "error_type", None) = "unexpected_error"

\* C8: status only moves pending -> running -> completed or failed, and once
\* it is terminal no step changes status, step_results, current_step_index
\* or error.
C8_TerminalIsFinal ==
    [][ /\ status \in Terminal =>
              UNCHANGED <<status, step_results, current_step_index, error>>
        /\ status' # status =>
              \/ status = "pending" /\ status' = "running"
              \/ status = "running" /\ status' \in Terminal ]_vars

\* The endpoint has acted on a run that ended "failed" with its records kept.
C8_Witness ==
    /\ pc = "responded"
    /\ status = "failed"
    /\ Len(step_results) >= 2

\* C9: end_time is unset while the run is pending or running and set once it
\* is terminal; it is assigned only in the step that makes status terminal,
\* and every such step (stop exit, completion, except branch) assigns it.
C9_EndTimeSetOnce ==
    /\ [](status \in {"pending", "running"} <=> end_time = NoTime)
    /\ [][ /\ end_time' # end_time =>
                (end_time = NoTime /\ status \notin Terminal /\ status' \in Terminal)
           /\ (status \notin Terminal /\ status' \in Terminal) =>
                end_time' = clock ]_vars

\* The except branch has ended a run that made calls: end_time is set.
C9_Witness ==
    /\ Returned
    /\ error = WorkflowExecutionError
    /\ end_time # NoTime
    /\ end_time > start_time

\* C10: error is set (not None) only if status is "failed".
C10_ErrorOnlyWhenFailed ==
    error # None => status = "failed"

\* The stop exit has set error on a failed run.
C10_Witness ==
    /\ error # None
    /\ status = "failed"
    /\ StopStepFailed

\* C11 as claimed: in the execution execute_workflow returns after at least
\* one agent call was made, len(step_results) = current_step_index + 1, on
\* every exit path (completion, stop exit, except branch).
C11_ResultsTrackIndex ==
    (Returned /\ called_steps # {}) =>
        Len(step_results) = current_step_index + 1

\* C12 (sequential ordering): step_results only grows, one record at the end
\* at a time; the step_index values of its records start at 0 and never
\* decrease; and the agent of a step is first called only when the records
\* of all the steps before it have been appended.
C12_StrictStepOrder ==
    /\ []( /\ Len(step_results) >= 1 => step_results[1].step_index = 0
           /\ \A k \in 1 .. Len(step_results) - 1 :
                 step_results[k].step_index <= step_results[k + 1].step_index
           /\ \A i \in called_steps : i <= Len(step_results) )
    /\ [][ /\ step_results' # step_results =>
                /\ Len(step_results') = Len(step_results) + 1
                /\ SubSeq(step_results', 1, Len(step_results)) = step_results
           /\ \A i \in called_steps' \ called_steps :
                /\ Len(step_results) = i
                /\ \A j \in 0 .. i - 1 : j \in called_steps ]_vars

\* All three steps of a workflow were called in turn, the second one failing.
C12_Witness ==
    /\ Len(step_results) = 3
    /\ called_steps = {0, 1, 2}
    /\ ~Succeeded(step_results[2])
    /\ Succeeded(step_results[3])

\* The current step reads "previous" and the step before it has a failure
\* record under "continue" (or any on_error other than "stop" and "skip").
AfterFailedContinue ==
    /\ current_step_index >= 1
    /\ Len(step_results) >= current_step_index
    /\ step.input_source = "previous"
    /\ ~Succeeded(step_results[current_step_index])
    /\ workflow[current_step_index].on_error \notin {"stop", "skip"}

\* C13 as claimed: a "previous" step that follows a step which failed under
\* "continue" is resolved from the failed result's output field (empty when
\* the result has none), not from the last successful step's output.
C13_ContinueThreadsFailedOutput ==
    AfterFailedContinue =>
        step_input = Or(Get(step_results[current_step_index], "output", ""),
                        initial_input)

\* C13 as amended: a failure under "continue" lets the run proceed, and
\* because a failure result has no output field current_output is left as it
\* was: it always is the output of the last step that succeeded (initial_input
\* if none), and a following "previous" step is resolved from that value,
\* falling back to initial_input when it is empty.
C13_ContinueKeepsOutput ==
    /\ pc # "created" => current_output = LastSuccessOutput(step_results)
    /\ \A k \in 1 .. Len(step_results) :
          ~Succeeded(step_results[k]) => "output" \notin DOMAIN step_results[k]
    /\ AfterFailedContinue =>
          step_input = Or(LastSuccessOutput(SubSeq(step_results, 1, current_step_index)),
                          initial_input)
    /\ ( /\ Returned
         /\ Len(step_results) >= 1
         /\ ~Succeeded(LastRecord)
         /\ StepOf(LastRecord).on_error \notin {"stop", "skip"} ) =>
          \/ status = "completed" /\ Len(step_results) = Len(workflow)
          \/ ExceptionCaught

\* The third step was sent the first step's output after the second step
\* failed under "continue".
C13_Witness ==
    /\ AfterFailedContinue
    /\ current_step_index = 2
    /\ Succeeded(step_results[1])
    /\ step_results[1].output # ""
    /\ step_input = step_results[1].output
    /\ step_input \in sent_inputs

\* C14: after a step succeeded current_output is that step's output, and a
\* following step with input_source "previous" is sent exactly that output,
\* the empty string included; a first step reading "previous" is sent
\* initial_input.
C14_PreviousIsLastOutput ==
    /\ (CurrentStepRecorded /\ pc = "for" /\ Succeeded(LastRecord)) =>
          current_output = LastRecord.output
    /\ (current_step_index = 0 /\ step.input_source = "previous") =>
          step_input = initial_input
    /\ ( /\ current_step_index >= 1
         /\ Len(step_results) >= current_step_index
         /\ step.input_source = "previous"
         /\ Succeeded(step_results[current_step_index]) ) =>
          step_input = step_results[current_step_index].output

\* The records that were in step_results when the current step's input was
\* resolved: those of the steps before it.
PriorResults == SubSeq(step_results, 1, current_step_index)

\* "step[n]" as a workflow writes it.
StepRef(n) == "step[" \o ToString(n) \o "]"

\* C15 ("step[n]"): a step whose input_source is "step[n]" with n the index
\* of an earlier step is sent that step's recorded output, the empty string
\* when its record has no output (it failed); with n the index of the step
\* itself or of a later step, with a negative n or an unparsable n, it is sent
\* initial_input.
C15_StepReference ==
    current_step_index >= 0 =>
        /\ \A n \in 0 .. MaxInputSteps :
              step.input_source = StepRef(n) =>
                 step_input =
                    IF n < current_step_index
                    THEN IF "output" \in DOMAIN PriorResults[n + 1]
                         THEN PriorResults[n + 1].output ELSE ""
                    ELSE initial_input
        /\ step.input_source \in {"step[-1]", "step[x]"} =>
              step_input = initial_input

\* The second step referred to step[0], whose record is a failure without an
\* output, and was sent the empty string, not the initial input.
C15_Witness ==
    /\ current_step_index = 1
    /\ step.input_source = "step[0]"
    /\ ~Succeeded(step_results[1])
    /\ "output" \notin DOMAIN step_results[1]
    /\ step_input = ""
    /\ step_input \in sent_inputs

\* C16: a step with input_source "original" is sent initial_input at every
\* position and whatever the earlier steps produced; an input_source that is
\* not "original", "previous" or a "step[" reference is sent as it is written.
C16_OriginalAndLiteral ==
    current_step_index >= 0 =>
        /\ step.input_source = "original" => step_input = initial_input
        /\ ( /\ step.input_source \notin {"original", "previous"}
             /\ ~StartsWith(step.input_source, "step[") ) =>
              step_input = step.input_source
        /\ \A text \in sent_inputs : text = step_input

\* The second step read "original" after the first step, fed by a literal,
\* had changed current_output.
C16_Witness ==
    /\ current_step_index = 1
    /\ step.input_source = "original"
    /\ workflow[1].input_source = "static text"
    /\ Succeeded(step_results[1])
    /\ step_results[1].output = "static text+"
    /\ current_output = "static text+"
    /\ step_input = initial_input
    /\ step_input \in sent_inputs

\* The error text call_agent reports when no url resolves for the agent.
NotFoundError(agent_name) == "Agent '" \o agent_name \o "' not found in registry"

\* C17: a result call_agent returns when neither the step's url override nor
\* the registry yields a url is a failure with an "agent not found" error and
\* error_type "registry_miss"; a url override, when present, is the url used
\* whatever the registry holds for the name.
C17_RegistryMissResult ==
    /\ \A k \in 1 .. Len(step_results) :
          LET r == step_results[k]
          IN  (~Succeeded(r) /\ r.error = NotFoundError(workflow[k].agent)) =>
                  Get(r, "error_type", None) = "registry_miss"
    /\ \A name \in AgentNames, registry \in Registries :
          ResolveUrl(name, "http://override:8000", registry) = "http://override:8000"

\* 2 + 4 + ... + 2^n, the seconds slept after n failed attempts that each
\* had an attempt left.
RECURSIVE SleptAfter(_)
SleptAfter(n) == IF n <= 0 THEN 0 ELSE SleptAfter(n - 1) + 2 ^ n

\* The seconds slept for the recorded steps: a record of k attempts slept
\* after each of its first k - 1.
RECURSIVE SleptForRecords(_)
SleptForRecords(results) ==
    IF Len(results) = 0 THEN 0
    ELSE SleptForRecords(SubSeq(results, 1, Len(results) - 1))
            + SleptAfter(results[Len(results)].attempts - 1)

\* The seconds slept so far for the step in progress, 0 when it is recorded.
SleptForCurrent ==
    IF current_step_index < 0 \/ Len(step_results) = current_step_index + 1 THEN 0
    ELSE IF pc = "while" THEN SleptAfter(attempts)
    ELSE SleptAfter(attempts - 1)

\* C18 (backoff): the orchestrator sleeps only after a failed attempt that
\* leaves an attempt, and then always, for 2^k seconds after the k-th attempt,
\* with the next attempt following; so the seconds slept are 2 + ... + 2^(k-1)
\* for a step recorded with k attempts, 2 + ... + 2^r for a step with retry r
\* whose attempts all failed, and none for a step with retry 0.
C18_ExponentialBackoff ==
    /\ []( /\ slept = SleptForRecords(step_results) + SleptForCurrent
           /\ \A k \in 1 .. Len(step_results) :
                 /\ ~Succeeded(step_results[k]) =>
                       step_results[k].attempts - 1 = workflow[k].retry
                 /\ workflow[k].retry = 0 =>
                       SleptAfter(step_results[k].attempts - 1) = 0 )
    /\ [][ /\ slept' # slept =>
                /\ pc = "sleep" /\ pc' = "while"
                /\ ~Succeeded(step_result)
                /\ attempts >= 1 /\ attempts < max_attempts
                /\ slept' = slept + 2 ^ attempts
           /\ attempts' = attempts + 1 =>
                (pc' = "sleep" <=>
                    (~Succeeded(step_result') /\ attempts' < max_attempts))
           /\ (pc = "sleep" /\ pc' # pc) => slept' # slept ]_vars

\* A step with retry 3 failed four times: 2 + 4 + 8 seconds were slept.
C18_Witness ==
    /\ Len(step_results) = 1
    /\ ~Succeeded(step_results[1])
    /\ step_results[1].attempts = 4
    /\ slept = 14

\* The execution_id values of all the executions the process has created.
CreatedIds ==
    {execution_id} \cup { other_runs[k].execution_id : k \in 1 .. Len(other_runs) }

\* C19: any two distinct executions created by the process have different
\* execution_id values, also when they are created within the same second.
C19_UniqueExecutionIds ==
    Cardinality(CreatedIds) = 1 + Len(other_runs)

\* C20: once the execute endpoint has answered for the run followed, the
\* store's entry under its execution_id is that run's own execution, whatever
\* other runs were created and stored before, during or after it.
C20_LookupReturnsOwnRun ==
    pc = "responded" => get_execution_status(execution_id) = This

\* The texts a run derives from its own initial input: the input itself, the
\* outputs of its agents, and the empty output.
OwnTexts(initial) == {initial, initial \o "+", ""}

\* Every text the run r holds was derived from its own initial input.
RunHoldsOwnTexts(r) ==
    /\ r.current_output \in OwnTexts(r.initial_input)
    /\ r.step_input \in OwnTexts(r.initial_input) \cup {None}
    /\ \A k \in 1 .. Len(r.step_results) :
          /\ r.step_results[k].step_name = r.workflow[k].name
          /\ Get(r.step_results[k], "output", "") \in OwnTexts(r.initial_input)

\* The execution and the locals of the run followed, as a run record.
ThisRun ==
    [workflow |-> workflow, initial_input |-> initial_input,
     current_output |-> current_output, step_input |-> step_input,
     step_results |-> step_results]

\* C21 (isolation): a step of the second run leaves the step_results,
\* current_step_index, current_output and status of the run followed (and its
\* other locals) unchanged, and a step of the run followed leaves the second
\* run unchanged; every text either run holds, sends or records is derived
\* from its own initial input; a registry handler changes neither run.
C21_RunsAreIsolated ==
    /\ []( /\ pc # "created" => RunHoldsOwnTexts(ThisRun)
           /\ peer # NoPeer => RunHoldsOwnTexts(peer)
           /\ \A text \in sent_inputs : text \in OwnTexts(initial_input) )
    /\ [][ /\ peer' # peer =>
                UNCHANGED <<status, current_step_index, step_results,
                            current_output, step_input, attempts, step_result,
                            error, pc>>
           /\ <<status, current_step_index, step_results, current_output>>'
                 # <<status, current_step_index, step_results, current_output>>
                 => peer' = peer
           /\ agent_registry' # agent_registry =>
                /\ peer' = peer
                /\ UNCHANGED <<status, current_step_index, step_results,
                               current_output>> ]_vars

\* Both runs are between two attempts of a step, each with its own input.
C21_Witness ==
    /\ peer # NoPeer
    /\ pc = "sleep"
    /\ peer.pc = "sleep"
    /\ step_input = "hello"
    /\ peer.step_input = "other"
    /\ peer.attempts = 1
    /\ attempts = 1

\* The run is between the first and the last attempt of its current step.
BetweenAttempts == agent_calls >= 1 /\ pc \in {"while", "sleep"}

\* C22 (retries are local): all the calls made for a step name that step's
\* agent and every request sent for it carries the input resolved at the head
\* of the step; between the first and the last attempt of a step the run stays
\* on that step, keeps that input and calls no other step, whatever the
\* registry handlers do in between.
C22_RetriesAreLocal ==
    /\ []( agent_calls >= 1 =>
              /\ called_agents = {step.agent}
              /\ sent_inputs \subseteq {step_input}
              /\ current_step_index \in called_steps
              /\ \A i \in called_steps : i <= current_step_index )
    /\ [][ /\ BetweenAttempts =>
                /\ current_step_index' = current_step_index
                /\ step_input' = step_input
                /\ step_results' = step_results
                /\ called_steps' = called_steps
                /\ called_agents' = called_agents
           /\ step_input' # step_input => pc = "for" ]_vars

\* The registry changed between the two attempts of the second step: one of
\* them sent the resolved input, the other found no url.
C22_Witness ==
    /\ current_step_index = 1
    /\ agent_calls = 2
    /\ http_requests = 1
    /\ sent_inputs = {step_input}
    /\ called_steps = {0, 1}

\* The statement after the while loop is about to raise: the current step
\* has no result to put the metadata on.
AboutToRaise == pc = "after_while" /\ step_result = NoResult

\* C23: an exception raised inside the step loop is caught: the run returns
\* instead of raising, with status "failed", an error that starts with
\* "Workflow execution error", end_time set, and step_results as they were
\* before the exception.
C23_ExceptionIsCaught ==
    /\ []( /\ pc # "raised"
           /\ ExceptionCaught =>
                 /\ status = "failed"
                 /\ StartsWith(error, "Workflow execution error")
                 /\ end_time # NoTime
                 /\ Len(step_results) = current_step_index )
    /\ [][ (AboutToRaise /\ pc' # pc) =>
                /\ pc' = "returned"
                /\ status' = "failed"
                /\ StartsWith(error', "Workflow execution error")
                /\ end_time' = clock
                /\ step_results' = step_results ]_vars

\* The except branch ended a run whose first step had been recorded.
C23_Witness ==
    /\ Returned
    /\ ExceptionCaught
    /\ current_step_index = 1
    /\ Len(step_results) = 1
    /\ error = WorkflowExecutionError

\* C25: once the loop is done with a step it reached, call_agent was invoked
\* for that step and its record, with attempts >= 1, is in step_results,
\* whatever the step's retry value.
C25_EveryStepAttempted ==
    (current_step_index >= 0 /\ pc \in {"for", "returned", "responded"}) =>
        /\ current_step_index \in called_steps
        /\ Len(step_results) = current_step_index + 1
        /\ LastRecord.attempts >= 1

\* The positions in step_results of the records of workflow step n.
RecordsOfStep(n) ==
    { k \in 1 .. Len(step_results) : step_results[k].step_index = n }

\* The loop is done with step i of the workflow.
DoneWithStep(i) ==
    \/ i < current_step_index
    \/ i = current_step_index /\ pc \in {"for", "returned", "responded"}

\* C26: the k-th entry of step_results (from 0) has step_index k and the name
\* of workflow step k; every step whose agent was called has exactly one
\* record once the loop is done with it, also after a failure under "skip" or
\* "continue"; so a step reading "step[n]" for an earlier n is sent the
\* output of the record of workflow step n.
C26_RecordIndexIsPosition ==
    /\ \A k \in 1 .. Len(step_results) :
          /\ step_results[k].step_index = k - 1
          /\ step_results[k].step_name = workflow[k].name
          /\ k - 1 \in called_steps
    /\ \A i \in called_steps :
          /\ Cardinality(RecordsOfStep(i)) <= 1
          /\ DoneWithStep(i) => Cardinality(RecordsOfStep(i)) = 1
    /\ (current_step_index = 1 /\ step.input_source = "step[0]") =>
          /\ RecordsOfStep(0) # {}
          /\ step_input =
                Get(step_results[CHOOSE k \in RecordsOfStep(0) : TRUE], "output", "")

\* The second step read "step[0]" after the first step failed under "skip"
\* and was sent the empty output of that step's record.
C26_Witness ==
    /\ current_step_index = 1
    /\ step.input_source = "step[0]"
    /\ workflow[1].on_error = "skip"
    /\ ~Succeeded(step_results[1])
    /\ step_results[1].step_index = 0
    /\ step_input = ""
    /\ step_input \in sent_inputs

\* C28: a workflow with zero steps calls no agent and returns completed,
\* with empty step_results, current_step_index -1, no error and end_time set.
C28_EmptyWorkflowCompletes ==
    Len(workflow) = 0 =>
        /\ agent_calls = 0
        /\ http_requests = 0
        /\ called_steps = {}
        /\ step_results = <<>>
        /\ current_step_index = -1
        /\ error = None
        /\ pc \in {"created", "for", "returned", "responded"}
        /\ Returned => (status = "completed" /\ end_time # NoTime)

\* The run of a workflow without steps has returned.
C28_Witness ==
    /\ Len(workflow) = 0
    /\ Returned
    /\ status = "completed"
    /\ step_results = <<>>
    /\ current_step_index = -1

\* The run the store holds under id is finished.
FinishedRun(ref) ==
    IF ref = This
    THEN pc = "responded" /\ status \in Terminal /\ end_time # NoTime
    ELSE ref \in 1 .. Len(other_runs) /\ other_runs[ref].status \in Terminal

NonNegativeRetries == \A k \in 1 .. Len(workflow) : workflow[k].retry >= 0

RECURSIVE CallsAllowed(_)
\* The sum of retry + 1 over the first n steps of the workflow.
CallsAllowed(n) ==
    IF n = 0 THEN 0 ELSE CallsAllowed(n - 1) + workflow[n].retry + 1

\* C27: a workflow whose retries are all non-negative eventually returns,
\* provided every agent call and every backoff sleep returns, and by then
\* call_agent has run at most sum(retry + 1) times.
C27_Terminates ==
    /\ NonNegativeRetries ~> Returned
    /\ [](NonNegativeRetries => total_calls <= CallsAllowed(Len(workflow)))

\* A run of two retried steps returned after using its whole budget of calls.
C27_Witness ==
    /\ Returned
    /\ NonNegativeRetries
    /\ Len(workflow) = 2
    /\ total_calls = CallsAllowed(Len(workflow))
    /\ total_calls >= 4

\* The definition currently stored for name: the file of the runtime
\* directory, else the file of the examples directory, else none.
CurrentlyStored(name) ==
    IF name \in DOMAIN workflows_dir THEN from_file(workflows_dir[name])
    ELSE IF name \in DOMAIN examples_dir THEN from_file(examples_dir[name])
    ELSE NoWorkflow

\* C30: after any sequence of load_workflow, save_workflow and
\* delete_workflow calls, load_workflow(name) returns the definition
\* currently stored for the name (runtime directory first, then examples),
\* never a cached one an earlier save or delete made stale, and None when
\* neither directory has the file.
C30_CacheCoherence ==
    /\ \A name \in DOMAIN _workflow_cache :
          _workflow_cache[name] = CurrentlyStored(name)
    /\ \A name \in WorkflowNames :
          load_workflow(_workflow_cache, workflows_dir, name).value = CurrentlyStored(name)
    /\ returned.call = "load_workflow" => returned.value = CurrentlyStored(returned.name)

\* A workflow whose cached definition a save replaced was loaded again and
\* is the saved one, not the example of the same name.
C30_Witness ==
    /\ "a" \in dropped
    /\ returned.call = "load_workflow"
    /\ returned.name = "a"
    /\ "a" \in DOMAIN workflows_dir
    /\ "a" \in DOMAIN examples_dir
    /\ "a" \in DOMAIN _workflow_cache
    /\ returned.value = from_file(workflows_dir["a"])
    /\ returned.value # from_file(examples_dir["a"])

\* What the fields of the k-th Workflow object show.
FieldsOf(k) ==
    [name |-> built[k].name,
     steps |-> lists[built[k].steps],
     metadata |-> dicts[built[k].metadata]]

\* What the definition mapping shows.
FieldsOfSource ==
    [steps |-> lists[config.steps],
     metadata |-> IF "metadata" \in DOMAIN config THEN dicts[config.metadata] ELSE {}]

\* C24: two Workflow objects built from the same mapping have identical
\* field values, and a later change to the steps or the metadata of one
\* object is visible neither through another object nor through the mapping.
C24_IdempotentConstruction ==
    /\ []( touched = 0 =>
              \A i, j \in 1 .. Len(built) : FieldsOf(i) = FieldsOf(j) )
    /\ [][ /\ \A k \in 1 .. Len(built) :
                 touched' # k => FieldsOf(k)' = FieldsOf(k)
           /\ FieldsOfSource' = FieldsOfSource ]_vars

====
